---- MODULE Spec2Model ----
(***************************************************************************)
(* Model of mortar-luigi's MortarProjectTask (src/mortar/luigi/             *)
(* mortartask.py): the job lifecycle controller run(), the submission       *)
(* routine _run_job() with its cluster selection, and the status poller     *)
(* _poll_job_completion().  One task identity, one process at a time        *)
(* (single writer on the token paths); the process can be terminated        *)
(* between any two steps of run().                                          *)
(***************************************************************************)
EXTENDS Integers, Sequences, FiniteSets, TLC

(* ------------------------------ bounds --------------------------------- *)

\* Jobs the remote service creates in one behaviour (one per submission).
MaxJobs == 2
\* Largest value of the num_polling_retries parameter that is explored.
MaxRetries == 3
\* Failed status fetches the remote service produces during one poll call.
MaxFails == 5
MaxObserved == 5
MaxShellRuns == 2
\* The same two bounds for the behaviours that go through whole invocations
\* of run(), one after the other.
RunRetries == 1
RunFails == 2

(* --------------------------- program constants ------------------------- *)

\* jobs.STATUS_* of the job API, as used by run() and _poll_job_completion().
STATUS_STARTING == "starting"
STATUS_RUNNING == "running"
STATUS_SUCCESS == "success"
STATUS_EXECUTION_ERROR == "execution_error"
STATUS_STOPPED == "stopped"
COMPLETE_STATUSES == {STATUS_SUCCESS, STATUS_EXECUTION_ERROR, STATUS_STOPPED}
JobStatuses == {STATUS_STARTING, STATUS_RUNNING} \cup COMPLETE_STATUSES

\* clusters.CLUSTER_* of the job API, as used by _run_job()/_get_idle_clusters().
CLUSTER_STATUS_RUNNING == "running"
CLUSTER_STATUS_STARTING == "starting"
CLUSTER_STATUS_STOPPING == "stopping"
CLUSTER_TYPE_SINGLE_JOB == "single_job"
CLUSTER_TYPE_PERSISTENT == "persistent"

\* Python's None, for the locals that start as None.
None == "None"

\* Progress values the remote service reports for a running job, in order.
ProgressValues == <<10, 20, 30>>

\* The targets script_output() declares (abstract in the source; two here).
script_output == <<"out1", "out2">>

(* ------------------------------ text ----------------------------------- *)

\* Text is a sequence of characters.  Job ids are opaque non-empty texts
\* without white space, assigned by the remote service at submission.
\* The character 0x0B (vertical tab), for which TLA+ has no escape.
VerticalTab == "\\x0b"

\* The characters str.strip() removes: string.whitespace of Python 2.
Whitespace == {" ", "\t", "\n", "\r", VerticalTab, "\f"}
JobIdText == << <<"j", "a">>, <<"j", "b">>, <<"j", "c">>, <<"j", "d">>, <<"j", "e">> >>

RECURSIVE lstrip(_)
lstrip(s) ==
    IF s # <<>> /\ Head(s) \in Whitespace THEN lstrip(Tail(s)) ELSE s

RECURSIVE rstrip(_)
rstrip(s) ==
    IF s # <<>> /\ s[Len(s)] \in Whitespace
    THEN rstrip(SubSeq(s, 1, Len(s) - 1))
    ELSE s

\* str.strip() applied to the running-token's content (line 138).
strip(s) == rstrip(lstrip(s))

(* --------------------------- token store ------------------------------- *)

\* A target (file) of the token store: absent, or present with a text.
NoFile == [exists |-> FALSE, text |-> <<>>]

\* target_factory.write_file(target, text=None): creates the target and
\* writes the text when one is given; NoText stands for the default.
NoText == <<>>
write_file(text) == [exists |-> TRUE, text |-> text]

\* target.remove()
remove(target) == NoFile

(* ------------------------- cluster selection --------------------------- *)

\* The values a cluster_id can hold, each with its Python type: None, a
\* text, an integer, a boolean.
PyNone == [type |-> "NoneType", text |-> "", number |-> 0]
PyStr(text) == [type |-> "str", text |-> text, number |-> 0]
PyInt(number) == [type |-> "int", text |-> "", number |-> number]
PyBool(b) == [type |-> "bool", text |-> "", number |-> IF b THEN 1 ELSE 0]

Cluster(id, size, status, type, njobs) ==
    [cluster_id |-> id, size |-> size, status_code |-> status,
     cluster_type_code |-> type, running_jobs |-> njobs]

\* Clusters the account may hold, and the snapshots get_clusters() returns.
ClusterPool ==
    { Cluster(PyStr("A"), 4, CLUSTER_STATUS_RUNNING, CLUSTER_TYPE_PERSISTENT, 0),
      Cluster(PyStr("B"), 8, CLUSTER_STATUS_RUNNING, CLUSTER_TYPE_PERSISTENT, 0),
      Cluster(PyStr("C"), 8, CLUSTER_STATUS_RUNNING, CLUSTER_TYPE_PERSISTENT, 1),
      Cluster(PyStr("D"), 1, CLUSTER_STATUS_RUNNING, CLUSTER_TYPE_PERSISTENT, 0),
      Cluster(PyStr("E"), 8, CLUSTER_STATUS_RUNNING, CLUSTER_TYPE_SINGLE_JOB, 0),
      Cluster(PyStr("F"), 8, CLUSTER_STATUS_STARTING, CLUSTER_TYPE_PERSISTENT, 0),
      Cluster(PyStr("G"), 8, CLUSTER_STATUS_RUNNING, CLUSTER_TYPE_PERSISTENT, 0),
      Cluster(PyStr(""), 8, CLUSTER_STATUS_RUNNING, CLUSTER_TYPE_PERSISTENT, 0),
      Cluster(PyNone, 8, CLUSTER_STATUS_RUNNING, CLUSTER_TYPE_PERSISTENT, 0),
      Cluster(PyInt(0), 4, CLUSTER_STATUS_RUNNING, CLUSTER_TYPE_PERSISTENT, 0),
      Cluster(PyStr("None"), 4, CLUSTER_STATUS_RUNNING, CLUSTER_TYPE_PERSISTENT, 0) }

Snapshots ==
    {<<>>} \cup { <<c>> : c \in ClusterPool }
           \cup { s \in { <<c, d>> : c \in ClusterPool, d \in ClusterPool } : s[1] # s[2] }
           \cup { << Cluster(PyStr("A"), 4, CLUSTER_STATUS_RUNNING, CLUSTER_TYPE_PERSISTENT, 0),
                     Cluster(PyStr("B"), 8, CLUSTER_STATUS_RUNNING, CLUSTER_TYPE_PERSISTENT, 0),
                     Cluster(PyStr("C"), 8, CLUSTER_STATUS_RUNNING, CLUSTER_TYPE_PERSISTENT, 1) >> }

\* The snapshot explored where run() is followed through whole invocations:
\* one cluster can be reused until MortarClusterShutdownTask stops it.
RunSnapshots ==
    { << Cluster(PyStr("D"), 1, CLUSTER_STATUS_RUNNING, CLUSTER_TYPE_PERSISTENT, 0),
         Cluster(PyStr("A"), 4, CLUSTER_STATUS_RUNNING, CLUSTER_TYPE_PERSISTENT, 0) >> }

\* The values of the cluster_size parameter that are explored.
ClusterSizes == {1, 2, 4, 8, 9}

\* _get_idle_clusters(api, min_size): the list comprehension keeps the
\* snapshot's order.
IsIdleCluster(cluster, min_size) ==
    /\ cluster.status_code = CLUSTER_STATUS_RUNNING
    /\ cluster.cluster_type_code # CLUSTER_TYPE_SINGLE_JOB
    /\ cluster.running_jobs = 0
    /\ cluster.size >= min_size

_get_idle_clusters(snapshot, min_size) ==
    SelectSeq(snapshot, LAMBDA c : IsIdleCluster(c, min_size))

\* sorted(idle_clusters, key=size, reverse=True): Python's sort is stable,
\* also with reverse=True, so clusters of equal size keep their order.
RECURSIVE InsertBySize(_, _)
InsertBySize(c, sorted) ==
    IF sorted = <<>> THEN <<c>>
    ELSE IF Head(sorted).size >= c.size
         THEN <<Head(sorted)>> \o InsertBySize(c, Tail(sorted))
         ELSE <<c>> \o sorted

RECURSIVE SortedBySizeDesc(_)
SortedBySizeDesc(cs) ==
    IF cs = <<>> THEN <<>>
    ELSE InsertBySize(cs[Len(cs)], SortedBySizeDesc(SubSeq(cs, 1, Len(cs) - 1)))

\* A submission call made to the job API, or none.
NoCall ==
    [fn |-> "none", cluster_id |-> PyNone, cluster_size |-> 0,
     cluster_type |-> None, use_spot_instances |-> FALSE]

\* The local cluster_id of _run_job before a cluster is found (line 178).
NoClusterId == PyNone

\* Line 189, `if cluster_id:`: None, the empty text, 0 and False are
\* false, every other value is true.
Truthy(cluster_id) ==
    CASE cluster_id.type = "NoneType" -> FALSE
      [] cluster_id.type = "str" -> cluster_id.text # ""
      [] OTHER -> cluster_id.number # 0

\* _run_job(api): the submission call it makes for a snapshot of clusters.
_run_job(snapshot, size, single_use, use_spot) ==
    LET cluster_type == IF single_use THEN CLUSTER_TYPE_SINGLE_JOB
                        ELSE CLUSTER_TYPE_PERSISTENT
        idle_clusters == IF single_use THEN <<>>
                         ELSE _get_idle_clusters(snapshot, size)
        cluster_id == IF idle_clusters # <<>>
                      THEN SortedBySizeDesc(idle_clusters)[1].cluster_id
                      ELSE NoClusterId
    IN  IF Truthy(cluster_id)
        THEN [fn |-> "post_job_existing_cluster",
              cluster_id |-> cluster_id,
              cluster_size |-> 0, cluster_type |-> None,
              use_spot_instances |-> FALSE]
        ELSE [fn |-> "post_job_new_cluster", cluster_id |-> PyNone,
              cluster_size |-> size, cluster_type |-> cluster_type,
              use_spot_instances |-> use_spot]

(* ------------------------------ state ---------------------------------- *)

VARIABLES
    pc,                         \* where the process is in run(), or "idle"
    running_token,              \* the target {token_path}/{Class}-Running
    success_token,              \* the target {token_path}/{Class}
    outputs,                    \* the script_output() targets that exist
    cluster_size,               \* task parameters
    run_on_single_use_cluster,
    use_spot_instances,
    num_polling_retries,
    job_id,                     \* run(): job_id
    job,                        \* run(): the job _poll_job_completion returned
    current_job_status,         \* _poll_job_completion locals
    current_progress,
    exception_count,
    out_index,                  \* position of the clean-up loop (line 148)
    njobs,                      \* job API: jobs created so far
    remote,                     \* job API: the record of the newest job
    clusters,                   \* job API: the clusters of the account, as
                                \* get_clusters() lists them
    submission,                 \* the submission call of this invocation
    inv,                        \* history: the stores when run() was invoked
    last,                       \* history: how the previous invocation ended
    fail_budget,                \* job API: failed fetches per poll call
    fails,                      \* history: failed fetches of this poll call
    streak,                     \* history: failed fetches since the last
                                \* successful fetch of this poll call
    observed,                   \* history: the progress values this poll
                                \* call fetched for a running job
    progress_log,               \* the progress values this poll call logged
    observe_budget,             \* history: fetches of a poll call recorded
    shell,                      \* the ShellScriptTask: its token, its place
                                \* in run() and what the command gave
    snapshot,                   \* _run_job: the clusters get_clusters() gave
    reaper                      \* the MortarClusterShutdownTask: its place in
                                \* run() and the clusters it has yet to stop

params == <<cluster_size, run_on_single_use_cluster, use_spot_instances,
            num_polling_retries>>
stores == <<running_token, success_token, outputs>>
locals == <<job_id, job, current_job_status, current_progress,
            exception_count, out_index, snapshot>>
api == <<njobs, remote, fail_budget, clusters>>
history == <<submission, inv, last, fails, streak>>
logs == <<observed, progress_log, observe_budget>>
vars == <<pc, params, stores, locals, api, history, logs, shell, reaper>>

NoJob == <<>>
NoProgress == -1
NoRemote == [status_code |-> None, progress |-> 0]
NoInv == [running_token |-> NoFile, success_token |-> NoFile]
NoLast ==
    [outcome |-> "none", job_id |-> NoJob, status |-> None,
     at |-> "idle", subs |-> 0,
     no_token |-> FALSE, streak |-> 0]

\* shellscript.py: the command of the task and what a subprocess can give.
ShellCommands == {"cd my/dir; ls;", "exit 1"}
ShellStdout == {"", "a.txt\n"}
ShellStderr == {"", " ", "ls: cannot access"}
ReturnCodes == {0, 1, 2, -9}
NoCmdOutput == [cmd |-> None, stdout |-> None, stderr |-> None,
                return_code |-> 0]
NoShell ==
    [pc |-> "idle", token |-> NoFile, cmd |-> None, out |-> "", err |-> "",
     rc |-> 0, cmd_output |-> NoCmdOutput, runs |-> 0, executions |-> 0,
     wrote |-> FALSE, token_before |-> NoFile, outcome |-> "none"]

\* The MortarClusterShutdownTask outside run().
NoReaper == [pc |-> "idle", active |-> <<>>]

\* Parameter defaults (lines 52, 58, 62).
DefaultClusterSize == 2

Init ==
    /\ pc = "idle"
    /\ running_token = NoFile
    /\ success_token = NoFile
    /\ outputs = {}
    /\ cluster_size = DefaultClusterSize
    /\ run_on_single_use_cluster = FALSE
    /\ use_spot_instances = TRUE
    /\ num_polling_retries \in 0..RunRetries
    /\ fail_budget = RunFails
    /\ job_id = NoJob
    /\ job = NoRemote
    /\ current_job_status = None
    /\ current_progress = NoProgress
    /\ exception_count = 0
    /\ out_index = 1
    /\ njobs = 0
    /\ remote = NoRemote
    /\ clusters \in RunSnapshots
    /\ submission = NoCall
    /\ inv = NoInv
    /\ last = NoLast
    /\ fails = 0
    /\ streak = 0
    /\ observed = <<>>
    /\ progress_log = <<>>
    /\ observe_budget = 0
    /\ shell = NoShell
    /\ snapshot = <<>>
    /\ reaper = NoReaper

\* The locals of a process that is not in run().
Forgotten ==
    /\ job_id' = NoJob
    /\ job' = NoRemote
    /\ current_job_status' = None
    /\ current_progress' = NoProgress
    /\ exception_count' = 0
    /\ out_index' = 1
    /\ snapshot' = <<>>
    /\ fails' = 0
    /\ streak' = 0

\* History: the record of the invocation that ends now.
EndRecord(outcome) ==
    [outcome |-> outcome,
     job_id |-> job_id,
     status |-> job.status_code,
     at |-> pc,
     subs |-> IF submission = NoCall THEN 0 ELSE 1,
     no_token |-> ~inv.running_token.exists,
     streak |-> 0]

\* The invocation ends: run() returns or raises, or the process is killed.
Ends(outcome) ==
    /\ pc' = "idle"
    /\ last' = EndRecord(outcome)
    /\ Forgotten

(* ------------------------------ run() ---------------------------------- *)

\* A controller that never finds its running-token.
HasRunningTokenNever(token) == FALSE

\* Line 137: self.running_token().exists()
HasRunningToken(token) == token.exists

\* A controller that reads an empty job id back from the running-token.
ResumedJobIdEmpty(token) == <<>>

\* Line 138: job_id = self.running_token().open().read().strip()
ResumedJobId(token) == strip(token.text)

\* Lines 211-214: the poller's locals as a poll call starts.
PollStarts ==
    /\ current_job_status' = None
    /\ current_progress' = NoProgress
    /\ exception_count' = 0
    /\ fails' = 0
    /\ streak' = 0
    /\ observed' = <<>>
    /\ progress_log' = <<>>

\* run() is invoked (lines 136-138): with a running-token the stored job id
\* is read and polled, without one a job is to be submitted.
RunStart ==
    /\ pc = "idle"
    /\ HasRunningToken(running_token) \/ njobs < MaxJobs
    /\ inv' = [running_token |-> running_token, success_token |-> success_token]
    /\ submission' = NoCall
    /\ IF HasRunningToken(running_token)
       THEN /\ job_id' = ResumedJobId(running_token)
            /\ pc' = "poll"
       ELSE /\ job_id' = NoJob
            /\ pc' = "submit"
    /\ PollStarts
    /\ UNCHANGED <<snapshot, reaper, shell, observe_budget, params, stores, job, out_index, api, last>>

\* Lines 179-181 and 203: _run_job of a task that may share a cluster
\* asks the service for the clusters of the account.
GetClusters ==
    /\ pc = "submit"
    /\ ~run_on_single_use_cluster
    /\ snapshot' = clusters
    /\ pc' = "post_job"
    /\ UNCHANGED <<shell, logs, reaper, params, stores, job_id, job,
                   current_job_status, current_progress, exception_count,
                   out_index, api, history>>

\* Lines 182-200: one submission call, to an idle cluster of the snapshot
\* that was read or to a new cluster; a single-use task (line 179) makes
\* the call without having read the clusters.  The service creates the job
\* and returns its id.
Submit ==
    /\ \/ pc = "post_job"
       \/ pc = "submit" /\ run_on_single_use_cluster
    /\ njobs < MaxJobs
    /\ submission' = _run_job(IF run_on_single_use_cluster THEN clusters
                              ELSE snapshot,
                              cluster_size, run_on_single_use_cluster,
                              use_spot_instances)
    /\ njobs' = njobs + 1
    /\ remote' = [status_code |-> STATUS_STARTING, progress |-> 0]
    /\ job_id' = JobIdText[njobs + 1]
    /\ snapshot' = <<>>
    /\ pc' = "write_running"
    /\ UNCHANGED <<shell, logs, reaper, params, stores, job,
                   current_job_status, current_progress, exception_count,
                   out_index, fail_budget, clusters, inv, last, fails,
                   streak>>

\* A controller that has written a running-token before the submission
\* call raises.
SubmitFailsTokenFirst ==
    /\ pc \in {"submit", "post_job"}
    /\ running_token' = write_file(NoText)
    /\ Ends("submit_failed")
    /\ UNCHANGED <<reaper, shell, logs, params, success_token, outputs, api, submission, inv>>

\* Line 140: get_clusters (line 203) or the submission call (lines 190,
\* 195) raises; run() propagates.
SubmitFails ==
    /\ pc \in {"submit", "post_job"}
    /\ Ends("submit_failed")
    /\ UNCHANGED <<reaper, shell, logs, params, stores, api, submission, inv>>

\* A controller that writes its running-token without the job id.
RunningTokenWrittenEmpty(id) == write_file(NoText)

\* Line 142: target_factory.write_file(self.running_token(), text=job_id)
RunningTokenWritten(id) == write_file(id)

\* A controller that starts to poll without writing the running-token.
WriteRunningSkipped ==
    /\ pc = "write_running"
    /\ pc' = "poll"
    /\ UNCHANGED <<reaper, shell, logs, params, stores, locals, api, history>>

WriteRunning ==
    /\ pc = "write_running"
    /\ running_token' = RunningTokenWritten(job_id)
    /\ pc' = "poll"
    /\ UNCHANGED <<reaper, shell, logs, params, success_token, outputs, locals, api, history>>

(* ----------------------- _poll_job_completion -------------------------- *)

\* jobs.get_job(api, job_id) answers for a job the service knows.
KnownJob(id) == njobs > 0 /\ id = JobIdText[njobs]

\* Lines 224-225: current_job_status after a fetch.
NewStatus(current, fetched) ==
    IF fetched.status_code # current THEN fetched.status_code ELSE current

\* Lines 230-231: current_progress after a fetch.
NewProgress(current, fetched) ==
    IF fetched.status_code = STATUS_RUNNING /\ fetched.progress # current
    THEN fetched.progress
    ELSE current

\* A poller that logs the progress of a running job at every fetch.
ProgressLoggedEveryTick(log, current, fetched) ==
    IF fetched.status_code = STATUS_RUNNING
    THEN Append(log, fetched.progress)
    ELSE log

\* Lines 230-232: the progress lines logged so far, after a fetch.
ProgressLogged(log, current, fetched) ==
    IF fetched.status_code = STATUS_RUNNING /\ fetched.progress # current
    THEN Append(log, fetched.progress)
    ELSE log

\* History: job.get('progress') of every fetch that found the job running.
Observed(obs, fetched) ==
    IF fetched.status_code = STATUS_RUNNING
    THEN Append(obs, fetched.progress)
    ELSE obs

\* Line 235: the final state.
IsComplete(status) == status \in COMPLETE_STATUSES

\* Line 239: exception_count after a successful loop.
CountAfterSuccess(count) == 0

\* A poller that retries once more when the count has reached the bound.
RetryAllowedInclusive(count, retries) == count <= retries

\* Line 244: whether a failed fetch is retried.
RetryAllowed(count, retries) == count < retries

\* Line 245: exception_count after a failed fetch that is retried.
CountAfterFailure(count) == count + 1

\* Lines 218-242: a fetch succeeds.  A complete job is returned to run()
\* (the poller's locals are gone), otherwise the failure count is reset and
\* the poller sleeps.
PollFetchOk ==
    /\ pc = "poll"
    /\ KnownJob(job_id)
    /\ IF IsComplete(NewStatus(current_job_status, remote))
       THEN /\ job' = remote
            /\ pc' = "finish"
            /\ current_job_status' = None
            /\ current_progress' = NoProgress
            /\ exception_count' = 0
            /\ streak' = 0
            /\ UNCHANGED fails
       ELSE /\ current_job_status' = NewStatus(current_job_status, remote)
            /\ current_progress' = NewProgress(current_progress, remote)
            /\ exception_count' = CountAfterSuccess(exception_count)
            /\ streak' = 0
            /\ UNCHANGED <<job, pc, fails>>
    /\ IF Len(observed) < observe_budget
       THEN /\ observed' = Observed(observed, remote)
            /\ progress_log' = ProgressLogged(progress_log, current_progress,
                                              remote)
       ELSE UNCHANGED <<observed, progress_log>>
    /\ UNCHANGED <<reaper, shell, observe_budget, params, stores, job_id, out_index, snapshot, api,
                   submission, inv, last>>

\* Lines 243-247: a fetch fails and is retried after a sleep.
PollFetchRetry ==
    /\ pc = "poll"
    /\ fails < fail_budget
    /\ RetryAllowed(exception_count, num_polling_retries)
    /\ exception_count' = CountAfterFailure(exception_count)
    /\ fails' = fails + 1
    /\ streak' = streak + 1
    /\ UNCHANGED <<snapshot, reaper, shell, logs, pc, params, stores, job_id, job, current_job_status,
                   current_progress, out_index, api, submission, inv, last>>

\* Lines 248-249: a fetch fails with the retries used up; the error is
\* raised out of the poller and out of run().
PollFetchFatal ==
    /\ pc = "poll"
    /\ fails < fail_budget
    /\ ~RetryAllowed(exception_count, num_polling_retries)
    /\ pc' = "idle"
    /\ last' = [EndRecord("poll_fatal") EXCEPT !.streak = streak + 1]
    /\ Forgotten
    /\ UNCHANGED <<reaper, shell, logs, params, stores, api, submission, inv>>

\* Lines 244-246: a fetch fails and may be retried, the count is
\* incremented, and the log line of line 246 raises: str(e) of an error
\* whose message is unicode text outside ASCII is a UnicodeEncodeError in
\* Python 2.  Raised inside the except clause, it leaves the poller and
\* run().
PollFetchLogFatal ==
    /\ pc = "poll"
    /\ fails < fail_budget
    /\ RetryAllowed(exception_count, num_polling_retries)
    /\ pc' = "idle"
    /\ last' = [EndRecord("poll_fatal") EXCEPT !.streak = streak + 1]
    /\ Forgotten
    /\ UNCHANGED <<shell, logs, reaper, params, stores, api, submission, inv>>

\* Lines 224-227 and 250-254: the fetch succeeds with a new status, line
\* 225 stores it, and _get_job_status_description raises (the record has
\* status_details and no status_description); the except clause of line
\* 243 takes the error for a failure of the poll and retries.
PollDescribeRetry ==
    /\ pc = "poll"
    /\ KnownJob(job_id)
    /\ remote.status_code # current_job_status
    /\ RetryAllowed(exception_count, num_polling_retries)
    /\ current_job_status' = remote.status_code
    /\ exception_count' = CountAfterFailure(exception_count)
    /\ streak' = 0
    /\ UNCHANGED <<snapshot, reaper, shell, logs, pc, params, stores, job_id, job,
                   current_progress, out_index, api, submission, inv, last,
                   fails>>

\* The same with the retries used up: the error is raised out of run().
PollDescribeFatal ==
    /\ pc = "poll"
    /\ KnownJob(job_id)
    /\ remote.status_code # current_job_status
    /\ ~RetryAllowed(exception_count, num_polling_retries)
    /\ pc' = "idle"
    /\ last' = EndRecord("poll_fatal")
    /\ Forgotten
    /\ UNCHANGED <<reaper, shell, logs, params, stores, api, submission, inv>>

(* ------------------------ run(), after the poll ------------------------ *)

\* A controller that leaves the running-token behind.
RunningTokenKept(token) == token

\* Line 146: self.running_token().remove()
RunningTokenRemoved(token) == remove(token)

\* A controller that takes only an execution error for a failure.
JobFailedOnlyExecutionError(final_job) ==
    final_job.status_code = STATUS_EXECUTION_ERROR

\* Line 147: final_job_status_code != jobs.STATUS_SUCCESS
JobFailed(final_job) == final_job.status_code # STATUS_SUCCESS

\* Lines 144-147: the running-token is removed, then the final status
\* decides between the clean-up and the success-token.
Finish ==
    /\ pc = "finish"
    /\ running_token' = RunningTokenRemoved(running_token)
    /\ pc' = IF JobFailed(job) THEN "cleanup" ELSE "mark_success"
    /\ UNCHANGED <<reaper, shell, logs, params, success_token, outputs, locals, api, history>>

\* A clean-up that removes nothing.
OutputsAfterNoRemove(existing, out) == existing

\* Line 150: out.remove()
OutputsAfterRemove(existing, out) == existing \ {out}

\* Lines 148-150: one turn of the loop over script_output().
CleanupStep ==
    /\ pc = "cleanup"
    /\ out_index <= Len(script_output)
    /\ outputs' = OutputsAfterRemove(outputs, script_output[out_index])
    /\ out_index' = out_index + 1
    /\ UNCHANGED <<snapshot, reaper, shell, logs, pc, params, running_token, success_token, job_id, job,
                   current_job_status, current_progress, exception_count,
                   api, history>>

\* Line 151: the loop is over and run() raises for the failed job.
RaiseJobFailed ==
    /\ pc = "cleanup"
    /\ out_index > Len(script_output)
    /\ Ends("job_failed")
    /\ UNCHANGED <<reaper, shell, logs, params, stores, api, submission, inv>>

\* Line 153: target_factory.write_file(self.success_token())
SuccessTokenWritten == write_file(NoText)

\* Lines 153-154: the success-token is written and run() returns.
MarkSuccess ==
    /\ pc = "mark_success"
    /\ success_token' = SuccessTokenWritten
    /\ Ends("returned")
    /\ UNCHANGED <<reaper, shell, logs, params, running_token, outputs, api, submission, inv>>

\* The process is terminated somewhere inside run().
Kill ==
    /\ pc # "idle"
    /\ Ends("killed")
    /\ UNCHANGED <<reaper, shell, logs, params, stores, api, submission, inv>>

(* --------------------------- the remote job ---------------------------- *)

\* The progress value after p in ProgressValues, or p for the last one.
NextProgress(p) ==
    IF \E i \in 1..(Len(ProgressValues) - 1) : ProgressValues[i] = p
    THEN ProgressValues[(CHOOSE i \in 1..(Len(ProgressValues) - 1) :
                            ProgressValues[i] = p) + 1]
    ELSE p

\* The newest job starts to run.
RemoteStarts ==
    /\ njobs > 0
    /\ remote.status_code = STATUS_STARTING
    /\ remote' = [status_code |-> STATUS_RUNNING, progress |-> ProgressValues[1]]
    /\ UNCHANGED <<reaper, shell, logs, pc, params, stores, locals, njobs, fail_budget, clusters,
                   history>>

\* The running job makes progress.
RemoteProgresses ==
    /\ njobs > 0
    /\ remote.status_code = STATUS_RUNNING
    /\ remote.progress # NextProgress(remote.progress)
    /\ remote' = [remote EXCEPT !.progress = NextProgress(remote.progress)]
    /\ UNCHANGED <<reaper, shell, logs, pc, params, stores, locals, njobs, fail_budget, clusters,
                   history>>

\* The job succeeds: all of its outputs exist.
RemoteSucceeds ==
    /\ njobs > 0
    /\ remote.status_code = STATUS_RUNNING
    /\ remote' = [remote EXCEPT !.status_code = STATUS_SUCCESS]
    /\ outputs' = { script_output[i] : i \in 1..Len(script_output) }
    /\ UNCHANGED <<reaper, shell, logs, pc, params, running_token, success_token, locals, njobs,
                   fail_budget, clusters, history>>

\* The job fails or is stopped, leaving some of its outputs behind.
RemoteFails ==
    /\ njobs > 0
    /\ remote.status_code \in {STATUS_STARTING, STATUS_RUNNING}
    /\ \E status \in COMPLETE_STATUSES \ {STATUS_SUCCESS} :
          remote' = [remote EXCEPT !.status_code = status]
    /\ \E written \in SUBSET { script_output[i] : i \in 1..Len(script_output) } :
          outputs' = outputs \cup written
    /\ UNCHANGED <<reaper, shell, logs, pc, params, running_token, success_token, locals, njobs,
                   fail_budget, clusters, history>>

(* ----------------------- ShellScriptTask.run --------------------------- *)

\* A check that looks at the return code only.
_check_error_return_code_only(rc, err) == rc # 0

\* shellscript.py lines 64-66: whether _check_error raises.
_check_error(rc, err) == err # "" \/ rc # 0

\* shellscript.py lines 31-39: the command runs in a subprocess and gives
\* its stdout, its stderr and its return code.
ShellRun ==
    /\ shell.pc = "idle"
    /\ shell.runs < MaxShellRuns
    /\ \E cmd \in ShellCommands, out \in ShellStdout, err \in ShellStderr,
          rc \in ReturnCodes :
          shell' = [shell EXCEPT !.pc = "check", !.cmd = cmd, !.out = out,
                                 !.err = err, !.rc = rc,
                                 !.runs = shell.runs + 1,
                                 !.executions = 1, !.wrote = FALSE,
                                 !.token_before = shell.token,
                                 !.outcome = "none"]
    /\ UNCHANGED <<reaper, pc, params, stores, locals, api, history, logs>>

\* shellscript.py line 42: _check_error raises RuntimeError(message).
ShellRaises ==
    /\ shell.pc = "check"
    /\ _check_error(shell.rc, shell.err)
    /\ shell' = [shell EXCEPT !.pc = "idle", !.outcome = "raised"]
    /\ UNCHANGED <<reaper, pc, params, stores, locals, api, history, logs>>

\* shellscript.py lines 44-50: the result is kept in self.cmd_output.
ShellRecords ==
    /\ shell.pc = "check"
    /\ ~_check_error(shell.rc, shell.err)
    /\ shell' = [shell EXCEPT !.pc = "token",
                              !.cmd_output = [cmd |-> shell.cmd,
                                              stdout |-> shell.out,
                                              stderr |-> shell.err,
                                              return_code |-> shell.rc]]
    /\ UNCHANGED <<reaper, pc, params, stores, locals, api, history, logs>>

\* shellscript.py lines 51-52: the token is written if stderr is empty,
\* and run() returns.
ShellWritesToken ==
    /\ shell.pc = "token"
    /\ IF shell.err = ""
       THEN shell' = [shell EXCEPT !.pc = "idle", !.outcome = "returned",
                                   !.token = write_file(NoText),
                                   !.wrote = TRUE]
       ELSE shell' = [shell EXCEPT !.pc = "idle", !.outcome = "returned"]
    /\ UNCHANGED <<reaper, pc, params, stores, locals, api, history, logs>>

(* -------------------- MortarClusterShutdownTask.run -------------------- *)

\* Lines 278-280: the clusters _get_running_idle_clusters selects.
IsRunningIdle(cluster) ==
    /\ cluster.running_jobs = 0
    /\ cluster.status_code = CLUSTER_STATUS_RUNNING

\* clusters.stop_cluster(api, cluster_id): the cluster is shut down.
stop_cluster(cluster) == [cluster EXCEPT !.status_code = CLUSTER_STATUS_STOPPING]

\* Every action of the task leaves the rest of the state alone.
ReaperOnly ==
    UNCHANGED <<shell, logs, pc, params, stores, locals, njobs, remote,
                fail_budget, history>>

\* Lines 283-284: run() reads the clusters and keeps the ids of the running
\* ones without running jobs, in the order of the list.
ShutdownStart ==
    /\ reaper.pc = "idle"
    /\ \E i \in DOMAIN clusters : IsRunningIdle(clusters[i])
    /\ LET active_clusters == SelectSeq(clusters, IsRunningIdle)
       IN  reaper' = [pc |-> "stopping",
                      active |-> [i \in DOMAIN active_clusters |->
                                     active_clusters[i].cluster_id]]
    /\ UNCHANGED clusters
    /\ ReaperOnly

\* Lines 285-287: one turn of the loop stops the next cluster of the list,
\* whatever has become of it since the list was read; after the last one
\* run() returns.
ShutdownStop ==
    /\ reaper.pc = "stopping"
    /\ clusters' = [i \in DOMAIN clusters |->
                       IF clusters[i].cluster_id = Head(reaper.active)
                       THEN stop_cluster(clusters[i])
                       ELSE clusters[i]]
    /\ reaper' = IF Len(reaper.active) = 1 THEN NoReaper
                 ELSE [reaper EXCEPT !.active = Tail(reaper.active)]
    /\ ReaperOnly

\* Line 287: stop_cluster raises; run() ends with the rest still running.
ShutdownFails ==
    /\ reaper.pc = "stopping"
    /\ reaper' = NoReaper
    /\ UNCHANGED clusters
    /\ ReaperOnly

(* --------------------------- specification ----------------------------- *)

Next ==
    \/ RunStart
    \/ GetClusters
    \/ Submit
    \/ SubmitFails
    \/ WriteRunning
    \/ PollFetchOk
    \/ PollFetchRetry
    \/ PollFetchFatal
    \/ PollFetchLogFatal
    \/ PollDescribeRetry
    \/ PollDescribeFatal
    \/ Finish
    \/ CleanupStep
    \/ RaiseJobFailed
    \/ MarkSuccess
    \/ Kill
    \/ RemoteStarts
    \/ RemoteProgresses
    \/ RemoteSucceeds
    \/ RemoteFails
    \/ ShutdownStart
    \/ ShutdownStop
    \/ ShutdownFails

Spec == Init /\ [][Next]_vars

\* One poll call on its own, for every retry budget up to MaxRetries: the
\* state in which run() enters _poll_job_completion for the first job.
InitPoll ==
    /\ pc = "poll"
    /\ running_token = RunningTokenWritten(JobIdText[1])
    /\ success_token = NoFile
    /\ outputs = {}
    /\ cluster_size = DefaultClusterSize
    /\ run_on_single_use_cluster = FALSE
    /\ use_spot_instances = TRUE
    /\ num_polling_retries \in 0..MaxRetries
    /\ fail_budget = MaxFails
    /\ job_id = JobIdText[1]
    /\ job = NoRemote
    /\ current_job_status = None
    /\ current_progress = NoProgress
    /\ exception_count = 0
    /\ out_index = 1
    /\ njobs = 1
    /\ remote = [status_code |-> STATUS_STARTING, progress |-> 0]
    /\ clusters = <<>>
    /\ submission = _run_job(<<>>, DefaultClusterSize, FALSE, TRUE)
    /\ inv = NoInv
    /\ last = NoLast
    /\ fails = 0
    /\ streak = 0
    /\ observed = <<>>
    /\ progress_log = <<>>
    /\ observe_budget = MaxObserved
    /\ shell = NoShell
    /\ snapshot = <<>>
    /\ reaper = NoReaper

NextPoll ==
    \/ PollFetchOk
    \/ PollFetchRetry
    \/ PollFetchFatal
    \/ PollFetchLogFatal
    \/ PollDescribeRetry
    \/ PollDescribeFatal
    \/ RemoteStarts
    \/ RemoteProgresses
    \/ RemoteSucceeds
    \/ RemoteFails

SpecPoll == InitPoll /\ [][NextPoll]_vars

\* A poll call of the controller of Spec.
InitPollFair ==
    /\ pc = "poll"
    /\ running_token = RunningTokenWritten(JobIdText[1])
    /\ success_token = NoFile
    /\ outputs = {}
    /\ cluster_size = DefaultClusterSize
    /\ run_on_single_use_cluster = FALSE
    /\ use_spot_instances = TRUE
    /\ num_polling_retries \in 0..RunRetries
    /\ fail_budget = RunFails
    /\ job_id = JobIdText[1]
    /\ job = NoRemote
    /\ current_job_status = None
    /\ current_progress = NoProgress
    /\ exception_count = 0
    /\ out_index = 1
    /\ njobs = 1
    /\ remote = [status_code |-> STATUS_STARTING, progress |-> 0]
    /\ clusters = <<>>
    /\ submission = _run_job(<<>>, DefaultClusterSize, FALSE, TRUE)
    /\ inv = NoInv
    /\ last = NoLast
    /\ fails = 0
    /\ streak = 0
    /\ observed = <<>>
    /\ progress_log = <<>>
    /\ observe_budget = 0
    /\ shell = NoShell
    /\ snapshot = <<>>
    /\ reaper = NoReaper

\* The ShellScriptTask on its own.
InitShell ==
    /\ pc = "idle"
    /\ running_token = NoFile
    /\ success_token = NoFile
    /\ outputs = {}
    /\ cluster_size = DefaultClusterSize
    /\ run_on_single_use_cluster = FALSE
    /\ use_spot_instances = TRUE
    /\ num_polling_retries = 0
    /\ fail_budget = RunFails
    /\ job_id = NoJob
    /\ job = NoRemote
    /\ current_job_status = None
    /\ current_progress = NoProgress
    /\ exception_count = 0
    /\ out_index = 1
    /\ njobs = 0
    /\ remote = NoRemote
    /\ clusters = <<>>
    /\ submission = NoCall
    /\ inv = NoInv
    /\ last = NoLast
    /\ fails = 0
    /\ streak = 0
    /\ observed = <<>>
    /\ progress_log = <<>>
    /\ observe_budget = 0
    /\ shell = NoShell
    /\ snapshot = <<>>
    /\ reaper = NoReaper

NextShell ==
    \/ ShellRun
    \/ ShellRaises
    \/ ShellRecords
    \/ ShellWritesToken

SpecShell == InitShell /\ [][NextShell]_vars

\* The poller under fair scheduling: the loop of line 215 keeps fetching
\* (a fetch that can succeed does, in the end) and the remote job does not
\* run forever.
SpecPollFair ==
    /\ InitPollFair
    /\ [][NextPoll]_vars
    /\ WF_vars(PollFetchOk)
    /\ WF_vars(RemoteSucceeds \/ RemoteFails)

\* The submission of run() on its own, for every snapshot of clusters and
\* every setting of the cluster parameters.
InitSubmit ==
    /\ pc = "idle"
    /\ running_token = NoFile
    /\ success_token = NoFile
    /\ outputs = {}
    /\ cluster_size \in ClusterSizes
    /\ run_on_single_use_cluster \in BOOLEAN
    /\ use_spot_instances \in BOOLEAN
    /\ num_polling_retries = 0
    /\ fail_budget = 0
    /\ job_id = NoJob
    /\ job = NoRemote
    /\ current_job_status = None
    /\ current_progress = NoProgress
    /\ exception_count = 0
    /\ out_index = 1
    /\ njobs = 0
    /\ remote = NoRemote
    /\ clusters \in Snapshots
    /\ submission = NoCall
    /\ inv = NoInv
    /\ last = NoLast
    /\ fails = 0
    /\ streak = 0
    /\ observed = <<>>
    /\ progress_log = <<>>
    /\ observe_budget = 0
    /\ shell = NoShell
    /\ snapshot = <<>>
    /\ reaper = NoReaper

NextSubmit ==
    \/ RunStart
    \/ GetClusters
    \/ Submit
    \/ SubmitFails
    \/ WriteRunning
    \/ ShutdownStart
    \/ ShutdownStop
    \/ ShutdownFails

SpecSubmit == InitSubmit /\ [][NextSubmit]_vars

(* ------------------- properties of run(), under Spec ------------------- *)

\* The ways in which run() itself ends (returns or raises) after a poll.
PollOutcomes == {"poll_fatal", "returned", "job_failed"}

\* C1. A run() invoked with the running-token present, holding J, makes no
\* submission call (it never reaches _run_job) and polls job J, however the
\* poll and the invocation end.
C1_IdempotentResume ==
    inv.running_token.exists =>
        /\ submission = NoCall
        /\ pc \notin {"submit", "post_job", "write_running"}
        /\ pc = "poll" => job_id = inv.running_token.text
        /\ pc = "idle" /\ last.outcome \in PollOutcomes =>
               last.job_id = inv.running_token.text

\* A resumed invocation has polled its job to a final status and returned.
C1_Witness ==
    /\ inv.running_token.exists
    /\ pc = "idle"
    /\ last.outcome = "returned"
    /\ last.job_id = inv.running_token.text

\* C2. Two run() calls in a row, the first invoked without a running-token
\* and ended by a fatal poll error, by the job's success or by the job's
\* failure: one submission call in all, the one of the first call; the
\* second call makes none.
C2_NoDoubleSubmit ==
    ( /\ pc # "idle"
      /\ last.no_token
      /\ last.outcome \in PollOutcomes )
    => last.subs = 1 /\ submission = NoCall

\* C3. A run() invoked with the success-token present does nothing: no
\* submission, no poll, both tokens as they were.
C3_NoOpWhenDone ==
    inv.success_token.exists =>
        /\ submission = NoCall
        /\ pc \notin {"submit", "post_job", "write_running", "poll", "finish",
                      "cleanup", "mark_success"}
        /\ running_token = inv.running_token
        /\ success_token = inv.success_token

\* C4. The running-token and the success-token are never both present.
C4_TokensExclusive ==
    ~(running_token.exists /\ success_token.exists)

\* C5, as claimed. After a process termination that came at any point
\* after the running-token was written with the job id, the next run()
\* polls that job id and submits nothing.
C5_CrashResumable ==
    ( /\ last.outcome = "killed"
      /\ last.at \in {"poll", "finish", "cleanup", "mark_success"}
      /\ pc # "idle" )
    => /\ submission = NoCall
       /\ pc \notin {"submit", "post_job", "write_running"}
       /\ pc = "poll" => job_id = last.job_id

\* C5, amended. After a process termination that came after the
\* running-token was written with the job id and before run() removed it
\* (line 146), the next run() polls that job id and submits nothing.
C5_CrashResumableWhileTokenHeld ==
    ( /\ last.outcome = "killed"
      /\ last.at \in {"poll", "finish"}
      /\ pc # "idle" )
    => /\ submission = NoCall
       /\ pc \notin {"submit", "post_job", "write_running"}
       /\ pc = "poll" => job_id = last.job_id

\* The run() after a termination in the poller is polling the same job,
\* which this task had submitted itself.
C5_Witness ==
    /\ last.outcome = "killed"
    /\ last.at = "poll"
    /\ last.subs = 1
    /\ pc = "poll"
    /\ job_id = last.job_id

\* C6. A poll that returns a job with the success status leads to the
\* success-token and to a normal return, after which the running-token is
\* absent and the success-token is present and empty.
C6_SuccessMarking ==
    /\ (pc \in {"cleanup", "mark_success"} /\ job.status_code = STATUS_SUCCESS)
           => pc = "mark_success"
    /\ (pc = "idle" /\ last.outcome = "returned") =>
           /\ last.status = STATUS_SUCCESS
           /\ ~running_token.exists
           /\ success_token.exists
           /\ success_token.text = <<>>

\* run() has returned for a job that was submitted by this invocation.
C6_Witness ==
    /\ pc = "idle"
    /\ last.outcome = "returned"
    /\ last.subs = 1
    /\ success_token.exists

\* C7. A poll that returns a job with a final status other than success
\* leads to the clean-up and to run() raising, after which no declared
\* output exists and the running-token is absent.
C7_FailureCleanup ==
    /\ (pc \in {"cleanup", "mark_success"} /\ job.status_code # STATUS_SUCCESS)
           => pc = "cleanup"
    /\ (pc = "idle" /\ last.outcome = "job_failed") =>
           /\ last.status \in COMPLETE_STATUSES \ {STATUS_SUCCESS}
           /\ outputs = {}
           /\ ~running_token.exists

\* run() has raised for a stopped job.
C7_Witness ==
    /\ pc = "idle"
    /\ last.outcome = "job_failed"
    /\ last.status = STATUS_STOPPED
    /\ outputs = {}

\* C8. When the poller's fatal error has left run(), the running-token is
\* in place with the polled job id, the success-token is as it was when
\* run() was invoked, and the next run() polls the same job id and submits
\* nothing.
C8_FatalPollKeepsToken ==
    /\ (pc = "idle" /\ last.outcome = "poll_fatal") =>
           /\ running_token = RunningTokenWritten(last.job_id)
           /\ success_token = inv.success_token
    /\ (pc # "idle" /\ last.outcome = "poll_fatal") =>
           /\ submission = NoCall
           /\ pc \notin {"submit", "post_job", "write_running"}
           /\ pc = "poll" => job_id = last.job_id

\* The run() after a fatal poll error is polling the job of the token.
C8_Witness ==
    /\ last.outcome = "poll_fatal"
    /\ last.subs = 1
    /\ pc = "poll"
    /\ job_id = last.job_id
    /\ running_token.exists

(* ----------------- properties of the poller, under SpecPoll ------------ *)

\* C9. A poll call with num_polling_retries = N is still polling after up
\* to N failed fetches in a row and raises at failed fetch N + 1 in a row,
\* not before.
C9_RetryExhaustion ==
    /\ pc = "poll" => streak <= num_polling_retries
    /\ last.outcome = "poll_fatal" => last.streak = num_polling_retries + 1

\* C10. The failure counter is the number of failed fetches since the last
\* successful fetch, so the poller raises only when more than
\* num_polling_retries fetches have failed in a row, whatever the total.
C10_ConsecutiveOnly ==
    /\ pc = "poll" => exception_count = streak
    /\ last.outcome = "poll_fatal" => last.streak > num_polling_retries

(* ------------------ properties of run(), continued --------------------- *)

\* The steps of run() after the poll has returned a job.
AfterPoll == {"finish", "cleanup", "mark_success"}

\* C11. run() returns normally only for a job with the success status; for
\* every other final status it raises, and once the poll has returned the
\* invocation neither polls nor submits again.
C11_NoSwallowedFailure ==
    [][ /\ (pc \in AfterPoll /\ pc' = "idle" /\ last'.outcome = "returned")
              => job.status_code = STATUS_SUCCESS
        /\ (pc \in AfterPoll /\ pc' = "idle"
               /\ job.status_code \in COMPLETE_STATUSES \ {STATUS_SUCCESS})
              => last'.outcome \in {"job_failed", "killed"}
        /\ (pc \in AfterPoll)
              => /\ pc' \in AfterPoll \cup {"idle"}
                 /\ submission' = submission
                 /\ njobs' = njobs ]_vars

\* run() has raised for a job that ended with an execution error.
C11_Witness ==
    /\ pc = "idle"
    /\ last.outcome = "job_failed"
    /\ last.status = STATUS_EXECUTION_ERROR
    /\ last.subs = 1

\* C12. When the submission raises, run() raises at once: the tokens are as
\* they were when run() was invoked, no running-token exists, and a task
\* without tokens is left without tokens.
C12_SubmissionFailure ==
    (pc = "idle" /\ last.outcome = "submit_failed") =>
        /\ last.at \in {"submit", "post_job"}
        /\ running_token = inv.running_token
        /\ success_token = inv.success_token
        /\ ~running_token.exists
        /\ ~inv.success_token.exists => ~success_token.exists

\* The submission of a task that was never started has raised.
C12_Witness ==
    /\ pc = "idle"
    /\ last.outcome = "submit_failed"
    /\ ~running_token.exists
    /\ ~success_token.exists

(* -------------- properties of _run_job, under SpecSubmit --------------- *)

\* Cluster i of the snapshot can be reused for a job of this task.
Reusable(i) ==
    /\ snapshot[i].status_code = CLUSTER_STATUS_RUNNING
    /\ snapshot[i].cluster_type_code # CLUSTER_TYPE_SINGLE_JOB
    /\ snapshot[i].running_jobs = 0
    /\ snapshot[i].size >= cluster_size

\* C13. The snapshot _run_job searches is the list of clusters the service
\* holds when it is read.  The cluster _run_job then submits to is, in that
\* snapshot, running, not single-job, without running jobs and of size >=
\* cluster_size; it is the first of the largest such clusters of the
\* snapshot; none is chosen exactly when none matches.
C13_ClusterSelection ==
    [][ /\ (pc = "submit" /\ pc' = "post_job") => snapshot' = clusters
        /\ (pc = "post_job" /\ pc' = "write_running") =>
              IF \E i \in DOMAIN snapshot : Reusable(i)
              THEN /\ submission'.fn = "post_job_existing_cluster"
                   /\ \E i \in DOMAIN snapshot :
                         /\ Reusable(i)
                         /\ snapshot[i].cluster_id = submission'.cluster_id
                         /\ \A j \in DOMAIN snapshot :
                               Reusable(j) =>
                                  /\ snapshot[j].size <= snapshot[i].size
                                  /\ j < i =>
                                        snapshot[j].size < snapshot[i].size
              ELSE /\ submission'.fn = "post_job_new_cluster"
                   /\ submission'.cluster_id = PyNone ]_vars

\* C17. A run() without a running-token makes one submission call before
\* it goes on to the running-token: for a single-use task a new single-job
\* cluster of cluster_size, without reading the clusters; otherwise the job
\* goes to a reusable cluster of the snapshot when there is one, and else
\* to a new persistent cluster of cluster_size with the spot setting of the
\* task.
C17_SubmissionTarget ==
    [][ /\ (pc = "submit" /\ pc' = "post_job") =>
              /\ ~run_on_single_use_cluster
              /\ submission' = NoCall
              /\ njobs' = njobs
        /\ (pc \in {"submit", "post_job"} /\ pc' = "write_running") =>
              /\ ~inv.running_token.exists
              /\ submission = NoCall
              /\ njobs' = njobs + 1
              /\ IF run_on_single_use_cluster
                 THEN /\ pc = "submit"
                      /\ submission'.fn = "post_job_new_cluster"
                      /\ submission'.cluster_size = cluster_size
                      /\ submission'.cluster_type = CLUSTER_TYPE_SINGLE_JOB
                 ELSE IF \E i \in DOMAIN snapshot : Reusable(i)
                 THEN /\ submission'.fn = "post_job_existing_cluster"
                      /\ \E i \in DOMAIN snapshot :
                            /\ Reusable(i)
                            /\ snapshot[i].cluster_id = submission'.cluster_id
                 ELSE /\ submission'.fn = "post_job_new_cluster"
                      /\ submission'.cluster_size = cluster_size
                      /\ submission'.cluster_type = CLUSTER_TYPE_PERSISTENT
                      /\ submission'.use_spot_instances = use_spot_instances
        /\ (pc = "write_running" /\ pc' = "poll") =>
              /\ submission' = submission
              /\ njobs' = njobs ]_vars

(* ------------------ the progress log, under SpecPoll ------------------- *)

\* A sequence without its repetitions: every element that differs from the
\* one before it.
RECURSIVE Dedup(_)
Dedup(seq) ==
    IF Len(seq) <= 1 THEN seq
    ELSE IF seq[Len(seq)] = seq[Len(seq) - 1]
         THEN Dedup(SubSeq(seq, 1, Len(seq) - 1))
         ELSE Append(Dedup(SubSeq(seq, 1, Len(seq) - 1)), seq[Len(seq)])

\* C14. The progress lines a poll call has logged are the progress values
\* it fetched for the running job, one line for each change of the value:
\* for the values 10, 10, 20, 20, 30 the lines 10, 20, 30.
C14_ProgressLogDedup ==
    /\ progress_log = Dedup(observed)
    /\ observed = <<10, 10, 20, 20, 30>> => progress_log = <<10, 20, 30>>
    /\ Len(progress_log) <= Len(ProgressValues)

\* The poller has fetched 10, 10, 20, 20, 30 for the running job and has
\* logged three lines.
C14_Witness ==
    /\ observed = <<10, 10, 20, 20, 30>>
    /\ Len(progress_log) = 3
    /\ current_job_status = STATUS_RUNNING

(* ------------- properties of ShellScriptTask, under SpecShell ---------- *)

\* C15. A run() of the shell task that has ended has executed its command
\* once; it has written the token exactly when the return code was 0 and
\* stderr was empty, and then it has returned; in every other case it has
\* raised and the token is as it was.
C15_ShellSuccessGate ==
    (shell.pc = "idle" /\ shell.outcome # "none") =>
        /\ shell.executions = 1
        /\ shell.wrote <=> (shell.rc = 0 /\ shell.err = "")
        /\ shell.outcome = "returned" <=> (shell.rc = 0 /\ shell.err = "")
        /\ shell.outcome = "returned" => shell.token.exists
        /\ shell.outcome = "raised" => shell.token = shell.token_before

\* A command with return code 0 that wrote to stderr: run() has raised and
\* there is no token.
C15_Witness ==
    /\ shell.pc = "idle"
    /\ shell.outcome = "raised"
    /\ shell.rc = 0
    /\ shell.err # ""
    /\ ~shell.token.exists

(* ------------- properties of the poller, continued --------------------- *)

\* C16, as claimed. A failed fetch is retried only if the counter, once
\* incremented, is below num_polling_retries; the error is raised at the
\* failure that brings the counter to num_polling_retries.
C16_IncrementThenTest ==
    /\ (pc = "poll" /\ streak > 0) => exception_count < num_polling_retries
    /\ last.outcome = "poll_fatal" =>
          last.streak = IF num_polling_retries = 0 THEN 1
                        ELSE num_polling_retries

\* C16, amended. A failed fetch is retried, and the counter incremented,
\* only if the counter before the increment is below num_polling_retries:
\* a failure that finds the counter at num_polling_retries is not retried,
\* the error is raised.  Every raise of the poller leaves the tokens and
\* the outputs as they are, and the poller fetches no more.
C16_TestThenIncrement ==
    [][ /\ (pc = "poll" /\ pc' = "poll" /\ streak' = streak + 1) =>
              /\ exception_count < num_polling_retries
              /\ exception_count' = exception_count + 1
        /\ (pc = "poll" /\ pc' = "idle") =>
              /\ last'.outcome = "poll_fatal"
              /\ last'.streak > 0 =>
                    last'.streak <= num_polling_retries + 1
              /\ stores' = stores
        /\ (pc = "idle" /\ last.outcome = "poll_fatal") => pc' = "idle" ]_vars

\* With two retries the poller has raised at the third failure in a row;
\* the running-token is in place.
C16_Witness ==
    /\ num_polling_retries = 2
    /\ pc = "idle"
    /\ last.outcome = "poll_fatal"
    /\ last.streak = 3
    /\ running_token.exists

\* C18. The poller returns only a job in a final state and raises only
\* the fatal fetch error, that of more than num_polling_retries failed
\* fetches in a row; under fair scheduling every poll call ends in one of
\* the two ways.
C18_PollTerminates ==
    /\ [](pc = "finish" => IsComplete(job.status_code))
    /\ [](last.outcome = "poll_fatal" => last.streak > num_polling_retries)
    /\ <>(pc = "finish" \/ last.outcome = "poll_fatal")

(* ------------------ properties of the tokens, under Spec --------------- *)

\* C19. When run() has returned or has raised for a failed job and the
\* success-token is present, the job that run() took last had the success
\* status.
C19_SuccessTokenMeansSuccess ==
    ( /\ pc = "idle"
      /\ success_token.exists
      /\ last.outcome \in {"returned", "job_failed"} )
    => last.status = STATUS_SUCCESS

\* C20. While run() polls, the running-token exists and holds the polled
\* job id; that id was read from the running-token run() found, and then
\* nothing was submitted, or it is the id of the one job this run()
\* submitted.
C20_PollingHoldsToken ==
    pc = "poll" =>
        /\ running_token.exists
        /\ running_token.text = job_id
        /\ IF inv.running_token.exists
           THEN /\ job_id = strip(inv.running_token.text)
                /\ submission = NoCall
           ELSE /\ submission # NoCall
                /\ job_id = JobIdText[njobs]

\* A run() is polling the job it has submitted and written to the token,
\* with a fetch already failed.
C20_Witness ==
    /\ pc = "poll"
    /\ ~inv.running_token.exists
    /\ submission # NoCall
    /\ running_token.text = job_id
    /\ fails > 0

(* ------------------------- checks of the model ------------------------- *)

\* The job the poller fetches is the newest job of the service: a job that
\* a later submission has replaced is never fetched again.
PolledJobIsNewest == pc \in {"poll", "finish"} => KnownJob(job_id)

TypeOK ==
    /\ pc \in {"idle", "submit", "post_job", "write_running", "poll", "finish",
               "cleanup", "mark_success"}
    /\ pc # "post_job" => snapshot = <<>>
    /\ reaper.pc \in {"idle", "stopping"}
    /\ reaper.pc = "stopping" <=> reaper.active # <<>>
    /\ running_token.exists \in BOOLEAN
    /\ success_token.exists \in BOOLEAN
    /\ outputs \subseteq { script_output[i] : i \in 1..Len(script_output) }
    /\ exception_count \in 0..num_polling_retries
    /\ njobs \in 0..MaxJobs
    /\ remote.status_code \in JobStatuses \cup {None}
    /\ current_job_status \in JobStatuses \cup {None}
    /\ fails \in 0..fail_budget
    /\ Len(observed) <= observe_budget
    /\ Len(progress_log) <= Len(observed)
    /\ shell.pc \in {"idle", "check", "token"}
    /\ shell.runs \in 0..MaxShellRuns
    /\ shell.token.exists \in BOOLEAN

====
